---- MODULE Spec2Model ----
(***************************************************************************)
(* A model of zscaler-manager: the `vpn` command line tool (src/cli/vpn.py)*)
(* and the domain functions it drives (src/domain.py).                     *)
(*                                                                         *)
(* The program is sequential.  Every action below is one step of it: one   *)
(* subprocess it runs (`ps aux`, `systemctl ...`), one sleep, or one branch*)
(* on a result.  The operating system is the environment: processes may    *)
(* appear and vanish between two steps of the program, and a `systemctl`   *)
(* call may or may not take effect (its exit code is never read).          *)
(***************************************************************************)
EXTENDS Integers, Sequences, FiniteSets, TLC

VARIABLES
    ps,             \* the process table: the command lines `ps aux` lists
    unit_enabled,   \* whether zsaservice.service is enabled in systemd
    status_format,  \* the shape of `systemctl status` output on this host
    op,             \* the entry point that was invoked
    pc,             \* the program's position
    subcommand,     \* args.subcommand of the vpn CLI
    are_running,    \* is_zscaler_running: the results mapped so far
    current_status, \* main: current_status
    seq,            \* the sequence main entered: start_zscaler or stop_zscaler
    step,           \* the step of that sequence the program is at
    dCurrent,       \* decide_action: current
    dDesired,       \* decide_action: desired
    dResult,        \* decide_action: the value returned
    wKind,          \* which wait runs: "running" or "not_running"
    wPatterns,      \* _are_processes_(not_)running: patterns
    wPending,       \* its local set not_running (resp. running)
    wTodo,          \* what is left of `for binary_name in list(...)`
    attempts,       \* its local attempts
    wResult,        \* the value it returned ("none" until it returns)
    retPc,          \* where the wait returns to
    polls,          \* history: passes of the while loop begun in this wait
    sleeps,         \* history: time.sleep calls made in this wait
    observed,       \* history: identities sampled in the target condition
    trace,          \* history: unit calls, verifications and reports
    raised,         \* the exception that ended the program ("" if none)
    returned,       \* what main returned: "" for None, or the ErrorStr
    exit_code,      \* the exit status of the process (-1 while it runs)
    env,            \* "live", or "ideal": units obey, processes keep still
    runs,           \* how many times the sequence was called in a row
    snapshot,       \* history: the system as the first call left it
    db_exists,      \* whether ~/.Zscaler/DB/ZscalerApp.db exists
    events,         \* the rows of ZAppNotifications, in the order fetched
    security_status, \* what is_internet_security_on returned
    config_file,    \* the configuration file: "ok", "missing", ...
    cycles,         \* history: calls of _check the daemon has begun
    notified,       \* history: calls of notify in the current _check
    consulted       \* history: reads of the event log in the current _check

vars == << ps, unit_enabled, status_format, op, pc, subcommand, are_running,
           current_status, seq, step, dCurrent, dDesired, dResult, wKind, wPatterns,
           wPending, wTodo, attempts, wResult, retPc, polls, sleeps,
           observed, trace, raised, returned, exit_code, env, runs, snapshot,
           db_exists, events, security_status, config_file, cycles,
           notified, consulted >>

envVars == << ps, unit_enabled, status_format >>
cliVars == << subcommand, are_running, current_status, seq, step >>
decideVars == << dCurrent, dDesired, dResult >>
exitVars == << returned, exit_code >>
runVars == << env, runs, snapshot >>
securityVars == << db_exists, events, security_status >>
daemonVars == << config_file, cycles, notified, consulted >>
waitVars == << wKind, wPatterns, wPending, wTodo, attempts, wResult, retPc,
               polls, sleeps, observed >>

----------------------------------------------------------------------------
(* Names of the source *)

ZSTray == "/opt/zscaler/bin/ZSTray"
zsaservice == "/opt/zscaler/bin/zsaservice"
zstunnel == "/opt/zscaler/bin/zstunnel"

gui_service == "ZSTray.service"
daemon_service == "zsaservice.service"

\* is_zscaler_running: the list `binaries`
binaries == << ZSTray, zsaservice, zstunnel >>

Identities == { binaries[i] : i \in 1..Len(binaries) }

\* _did_gui_start_correctly / _did_gui_stop_correctly: patterns
gui_patterns == { ZSTray }

\* _did_daemon_start_correctly / _did_daemon_stop_correctly: patterns
daemon_patterns == { zsaservice, zstunnel }

all_processes_running == "all_processes_running"
some_processes_running == "some_processes_running"
no_processes_running == "no_processes_running"

ZScalerVpnStatus ==
    { all_processes_running, some_processes_running, no_processes_running }

Action == { "nothing-to-reconcile", "shutdown", "startup" }

max_attempts == 5

----------------------------------------------------------------------------
(* The process table *)

\* The command line of each tracked program as `ps aux` shows it: the
\* executable first, then its arguments.
CommandLine(binary) ==
    IF binary = zstunnel THEN << binary, "--mode", "zpa" >> ELSE << binary >>

\* One line of `ps aux` is modelled by its 11th column, the command, split
\* on whitespace; the function returns the first chunk.
get_command_without_arguments(cmd) == cmd[1]

\* _is_process_running(target_binary_name) on the table `table`
is_process_running(table, target_binary_name) ==
    \E cmd \in table :
        get_command_without_arguments(cmd) = target_binary_name

ProcessTables == SUBSET { CommandLine(b) : b \in Identities }

----------------------------------------------------------------------------
(* The unit supervisor *)

\* The shapes `systemctl status zsaservice.service` can have on a host:
\*   preset_disabled  the shape the program expects
\*   preset_enabled   the vendor preset of the unit is "enabled"
\*   not_loaded       the second line is not the "Loaded:" line
\*   one_line         the output has a single line
StatusFormats == { "preset_disabled", "preset_enabled", "not_loaded", "one_line" }

\* The second line of the output, stripped, as the tokens it is made of.
LoadedLine(enabled, preset) ==
    << "Loaded:", "loaded", "(", "/etc/systemd/system/zsaservice.service", ";",
       IF enabled THEN "enabled" ELSE "disabled", ";",
       "preset:", preset, ")" >>

\* stdout of `systemctl status <unit>`, split in lines
systemctl_status(format, enabled) ==
    CASE format = "preset_disabled" ->
            << << "*", daemon_service >>, LoadedLine(enabled, "disabled"),
               << "Active:", "inactive" >> >>
      [] format = "preset_enabled" ->
            << << "*", daemon_service >>, LoadedLine(enabled, "enabled"),
               << "Active:", "inactive" >> >>
      [] format = "not_loaded" ->
            << << "*", daemon_service >>, << "Active:", "inactive" >>,
               LoadedLine(enabled, "disabled") >>
      [] format = "one_line" ->
            << << "Unit", daemon_service, "could", "not", "be", "found." >> >>

\* `needle in line` on token sequences
Contains(line, needle) ==
    \E i \in 1..(Len(line) - Len(needle) + 1) :
        SubSeq(line, i, i + Len(needle) - 1) = needle

\* line.startswith("Loaded: ")
StartsWithLoaded(line) == Len(line) >= 2 /\ line[1] = "Loaded:"

\* "; enabled; preset: disabled)" and "; disabled; preset: disabled)"
enabled_marker == << ";", "enabled", ";", "preset:", "disabled", ")" >>
disabled_marker == << ";", "disabled", ";", "preset:", "disabled", ")" >>

\* _is_systemd_unit_enabled and _is_systemd_unit_disabled share this body:
\* "True" / "False", or the exception raised.
is_systemd_unit_in_state(stdout, marker) ==
    IF Len(stdout) < 2 THEN "IndexError"
    ELSE IF ~StartsWithLoaded(stdout[2]) THEN "ValueError"
    ELSE IF Contains(stdout[2], marker) THEN "True" ELSE "False"

is_systemd_unit_enabled(stdout) == is_systemd_unit_in_state(stdout, enabled_marker)

is_systemd_unit_disabled(stdout) == is_systemd_unit_in_state(stdout, disabled_marker)

----------------------------------------------------------------------------
(* Pure functions of the domain *)

\* A mutant of is_zscaler_running_of: a partly running client counts as running
is_zscaler_running_any(results) ==
    IF TRUE \in results THEN all_processes_running
    ELSE IF results = { FALSE } THEN no_processes_running
    ELSE "NotImplementedError"

\* is_zscaler_running, from `are_running = set(map(...))` on: the status, or
\* the exception raised.
is_zscaler_running_of(results) ==
    IF results = { TRUE } THEN all_processes_running
    ELSE IF results = { FALSE } THEN no_processes_running
    ELSE IF results = { TRUE, FALSE } THEN some_processes_running
    ELSE "NotImplementedError"

\* A mutant of decide_action: the two branches return each other's action
decide_action_swapped(current, desired) ==
    IF current = desired THEN "nothing-to-reconcile"
    ELSE IF desired = all_processes_running
            /\ current \in { no_processes_running, some_processes_running }
         THEN "shutdown"
    ELSE IF desired = no_processes_running
            /\ current \in { all_processes_running, some_processes_running }
         THEN "startup"
    ELSE "UnsupportedScenario"

\* A mutant of decide_action: the final else returns instead of raising
decide_action_lenient(current, desired) ==
    IF current = desired THEN "nothing-to-reconcile"
    ELSE IF desired = all_processes_running
            /\ current \in { no_processes_running, some_processes_running }
         THEN "startup"
    ELSE IF desired = no_processes_running
            /\ current \in { all_processes_running, some_processes_running }
         THEN "shutdown"
    ELSE "nothing-to-reconcile"

\* decide_action: the action, or the exception raised
decide_action(current, desired) ==
    IF current = desired THEN "nothing-to-reconcile"
    ELSE IF desired = all_processes_running
            /\ current \in { no_processes_running, some_processes_running }
         THEN "startup"
    ELSE IF desired = no_processes_running
            /\ current \in { all_processes_running, some_processes_running }
         THEN "shutdown"
    ELSE "UnsupportedScenario"

----------------------------------------------------------------------------
(* History entries *)

Entry(kind, what, unit, arg, patterns) ==
    [ kind |-> kind, op |-> what, unit |-> unit, arg |-> arg, patterns |-> patterns ]

\* subprocess.run of `systemctl <verb> <unit>`, through _run_as_sudo
\* (via = "sudo") or _run_as_user (via = "user")
Call(verb, unit, via) == Entry("call", verb, unit, via, {})

\* what the check after a call returned: `want` is the condition checked
\* ("enabled", "disabled", "running", "not_running"), `patterns` the
\* executables it was checked of, `result` "True", "False" or an exception
Verify(want, unit, result, patterns) == Entry("verify", want, unit, result, patterns)

\* exit(f"failed to <verb> <unit>")
Exit(verb, unit) == Entry("exit", verb, unit, "", {})

\* logger.info(message)
Log(message) == Entry("log", message, "", "", {})

Range(xs) == { xs[i] : i \in 1..Len(xs) }

\* the executables a unit runs
ProcessesOf(unit) == IF unit = gui_service THEN gui_patterns ELSE daemon_patterns

CommandLinesOf(unit) == { CommandLine(b) : b \in ProcessesOf(unit) }

----------------------------------------------------------------------------
(* Initial state *)

Init ==
    /\ ps \in ProcessTables
    /\ unit_enabled \in BOOLEAN
    /\ status_format \in StatusFormats
    /\ op = "none"
    /\ pc = "idle"
    /\ subcommand = "none"
    /\ are_running = << >>
    /\ current_status = "none"
    /\ seq = "none"
    /\ step = 0
    /\ dCurrent = "none"
    /\ dDesired = "none"
    /\ dResult = "none"
    /\ wKind = "none"
    /\ wPatterns = {}
    /\ wPending = {}
    /\ wTodo = {}
    /\ attempts = 0
    /\ wResult = "none"
    /\ retPc = "none"
    /\ polls = 0
    /\ sleeps = 0
    /\ observed = {}
    /\ trace = << >>
    /\ raised = ""
    /\ returned = ""
    /\ exit_code = -1
    /\ env = "live"
    /\ runs = 0
    /\ snapshot = << {}, FALSE >>
    /\ db_exists = FALSE
    /\ events = << >>
    /\ security_status = "none"
    /\ config_file = "unread"
    /\ cycles = 0
    /\ notified = 0
    /\ consulted = 0

Running == pc \notin { "idle", "done" }

----------------------------------------------------------------------------
(* The environment *)

\* A tracked process starts, or exits, on its own while the program runs.
EnvProcess ==
    /\ Running
    /\ env = "live"
    /\ \E b \in Identities :
          ps' = IF CommandLine(b) \in ps
                THEN ps \ { CommandLine(b) }
                ELSE ps \cup { CommandLine(b) }
    /\ UNCHANGED << unit_enabled, status_format, op, pc, trace, raised >>
    /\ UNCHANGED cliVars
    /\ UNCHANGED decideVars
    /\ UNCHANGED waitVars
    /\ UNCHANGED << exitVars, runVars, securityVars, daemonVars >>

\* The environment of a run: "live" is any system (processes come and go,
\* a unit operation takes effect or not); in the "ideal" one the unit
\* operations take effect and processes do not change on their own.
Environments == { "live", "ideal" }

\* What `systemctl start <unit>` may have done by the time it returns: any
\* part of the unit's processes is up (none of them when the call failed).
SystemctlStart(unit) ==
    \E up \in SUBSET CommandLinesOf(unit) :
        /\ env = "ideal" => up = CommandLinesOf(unit)
        /\ ps' = ps \cup up

\* `systemctl stop <unit>`: any part of the unit's processes is gone.
SystemctlStop(unit) ==
    \E down \in SUBSET CommandLinesOf(unit) :
        /\ env = "ideal" => down = CommandLinesOf(unit)
        /\ ps' = ps \ down

\* `systemctl enable` / `systemctl disable`: it took effect, or it did not.
SystemctlEnable ==
    /\ unit_enabled' \in { TRUE, unit_enabled }
    /\ env = "ideal" => unit_enabled'

SystemctlDisable ==
    /\ unit_enabled' \in { FALSE, unit_enabled }
    /\ env = "ideal" => ~unit_enabled'

----------------------------------------------------------------------------
(* _are_processes_running and _are_processes_not_running *)

\* The call: the locals as the lines before the while loop set them.
WaitBegin(kind, patterns, ret) ==
    /\ wKind' = kind
    /\ wPatterns' = patterns
    /\ wPending' = patterns
    /\ wTodo' = {}
    /\ attempts' = 0
    /\ wResult' = "none"
    /\ retPc' = ret
    /\ polls' = 0
    /\ sleeps' = 0
    /\ observed' = {}

\* The condition an identity is polled for
Satisfied(kind, table, binary_name) ==
    IF kind = "running"
    THEN is_process_running(table, binary_name)
    ELSE ~is_process_running(table, binary_name)

\* A mutant of WhileCondition: one attempt too many
WhileConditionOffByOne(pending, n) == pending # {} /\ n <= max_attempts

\* `while not_running and attempts < max_attempts`
WhileCondition(pending, n) == pending # {} /\ n < max_attempts

\* The while test: enter the body (and begin a pass of the for loop over a
\* copy of the set), or fall out of the loop to `return False`.
WaitWhile ==
    /\ pc = "w_while"
    /\ IF WhileCondition(wPending, attempts)
       THEN /\ wTodo' = wPending
            /\ polls' = polls + 1
            /\ pc' = "w_for"
            /\ UNCHANGED wResult
       ELSE /\ wResult' = "False"
            /\ pc' = retPc
            /\ UNCHANGED << wTodo, polls >>
    /\ UNCHANGED << wKind, wPatterns, wPending, attempts, retPc, sleeps, observed >>
    /\ UNCHANGED << op, trace, raised >>
    /\ UNCHANGED envVars
    /\ UNCHANGED cliVars
    /\ UNCHANGED decideVars
    /\ UNCHANGED << exitVars, runVars, securityVars, daemonVars >>

\* One iteration of the for loop: one `ps aux`.  The order of a set of
\* strings is not fixed.  After the last iteration: `if not_running`, then
\* to the sleep, else `return True`.
WaitFor ==
    /\ pc = "w_for"
    /\ \E binary_name \in wTodo :
          LET ok == Satisfied(wKind, ps, binary_name)
              pending == IF ok THEN wPending \ { binary_name } ELSE wPending
              todo == wTodo \ { binary_name }
          IN  /\ wPending' = pending
              /\ wTodo' = todo
              /\ observed' = IF ok THEN observed \cup { binary_name } ELSE observed
              /\ IF todo # {}
                 THEN UNCHANGED << pc, wResult >>
                 ELSE IF pending # {}
                      THEN pc' = "w_sleep" /\ UNCHANGED wResult
                      ELSE pc' = retPc /\ wResult' = "True"
    /\ UNCHANGED << wKind, wPatterns, attempts, retPc, polls, sleeps >>
    /\ UNCHANGED << op, trace, raised >>
    /\ UNCHANGED envVars
    /\ UNCHANGED cliVars
    /\ UNCHANGED decideVars
    /\ UNCHANGED << exitVars, runVars, securityVars, daemonVars >>

\* time.sleep(wait_between_attempts); attempts += 1
WaitSleep ==
    /\ pc = "w_sleep"
    /\ sleeps' = sleeps + 1
    /\ attempts' = attempts + 1
    /\ pc' = "w_while"
    /\ UNCHANGED << wKind, wPatterns, wPending, wTodo, wResult, retPc, polls, observed >>
    /\ UNCHANGED << op, trace, raised >>
    /\ UNCHANGED envVars
    /\ UNCHANGED cliVars
    /\ UNCHANGED decideVars
    /\ UNCHANGED << exitVars, runVars, securityVars, daemonVars >>

\* A direct call of one of the two functions, with any list of patterns.
CallWait ==
    /\ pc = "idle"
    /\ \E kind \in { "running", "not_running" }, patterns \in SUBSET Identities :
          WaitBegin(kind, patterns, "done")
    /\ op' = "wait"
    /\ pc' = "w_while"
    /\ UNCHANGED << trace, raised >>
    /\ UNCHANGED envVars
    /\ UNCHANGED cliVars
    /\ UNCHANGED decideVars
    /\ UNCHANGED << exitVars, runVars, securityVars, daemonVars >>

----------------------------------------------------------------------------
(* decide_action *)

CallDecide ==
    /\ pc = "idle"
    /\ \E current \in ZScalerVpnStatus, desired \in ZScalerVpnStatus :
          LET r == decide_action(current, desired)
          IN  /\ dCurrent' = current
              /\ dDesired' = desired
              /\ IF r \in Action
                 THEN dResult' = r /\ UNCHANGED raised
                 ELSE dResult' = "none" /\ raised' = r
    /\ op' = "decide"
    /\ pc' = "done"
    /\ UNCHANGED trace
    /\ UNCHANGED envVars
    /\ UNCHANGED cliVars
    /\ UNCHANGED waitVars
    /\ UNCHANGED << exitVars, runVars, securityVars, daemonVars >>

----------------------------------------------------------------------------
(* start_zscaler and stop_zscaler *)

\* What a check does: a query of the unit's status, or a wait on processes.
CheckOf(check) ==
    CASE check = "_was_daemon_enabled_correctly" ->
            [ how |-> "query", want |-> "enabled", patterns |-> {} ]
      [] check = "_was_daemon_disabled_correctly" ->
            [ how |-> "query", want |-> "disabled", patterns |-> {} ]
      [] check = "_did_daemon_start_correctly" ->
            [ how |-> "wait", want |-> "running", patterns |-> daemon_patterns ]
      [] check = "_did_gui_start_correctly" ->
            [ how |-> "wait", want |-> "running", patterns |-> gui_patterns ]
      [] check = "_did_daemon_stop_correctly" ->
            [ how |-> "wait", want |-> "not_running", patterns |-> daemon_patterns ]
      [] check = "_did_gui_stop_correctly" ->
            [ how |-> "wait", want |-> "not_running", patterns |-> gui_patterns ]

Step(verb, unit, via, check, failed) ==
    [ verb |-> verb, unit |-> unit, via |-> via, check |-> check, failed |-> failed ]

\* A mutant of start_zscaler_steps: the GUI is started before the daemon
start_zscaler_steps_gui_first ==
    << Step("enable", daemon_service, "sudo", "_was_daemon_enabled_correctly",
            Exit("failed to enable", daemon_service)),
       Step("start", gui_service, "user", "_did_gui_start_correctly",
            Exit("failed to start", gui_service)),
       Step("start", daemon_service, "sudo", "_did_daemon_start_correctly",
            Exit("failed to start", daemon_service)) >>

\* A mutant of start_zscaler_steps: the last message names the wrong unit
start_zscaler_steps_wrong_unit ==
    << Step("enable", daemon_service, "sudo", "_was_daemon_enabled_correctly",
            Exit("failed to enable", daemon_service)),
       Step("start", daemon_service, "sudo", "_did_daemon_start_correctly",
            Exit("failed to start", daemon_service)),
       Step("start", gui_service, "user", "_did_gui_start_correctly",
            Exit("failed to start", daemon_service)) >>

\* A mutant of start_zscaler_steps: the first check passes only while the
\* GUI is down, so the sequence cannot be run twice
start_zscaler_steps_once ==
    << Step("enable", daemon_service, "sudo", "_did_gui_stop_correctly",
            Exit("failed to enable", daemon_service)),
       Step("start", daemon_service, "sudo", "_did_daemon_start_correctly",
            Exit("failed to start", daemon_service)),
       Step("start", gui_service, "user", "_did_gui_start_correctly",
            Exit("failed to start", gui_service)) >>

\* A mutant of stop_zscaler_steps: the GUI is stopped through sudo
stop_zscaler_steps_gui_as_sudo ==
    << Step("stop", gui_service, "sudo", "_did_gui_stop_correctly",
            Exit("failed to stop", gui_service)),
       Step("stop", daemon_service, "sudo", "_did_daemon_stop_correctly",
            Exit("failed to stop", daemon_service)),
       Step("disable", daemon_service, "sudo", "_was_daemon_disabled_correctly",
            Exit("failed to disable", daemon_service)) >>

\* start_zscaler: each call, the check that follows it, and the exit
\* taken when the check fails
start_zscaler_steps ==
    << Step("enable", daemon_service, "sudo", "_was_daemon_enabled_correctly",
            Exit("failed to enable", daemon_service)),
       Step("start", daemon_service, "sudo", "_did_daemon_start_correctly",
            Exit("failed to start", daemon_service)),
       Step("start", gui_service, "user", "_did_gui_start_correctly",
            Exit("failed to start", gui_service)) >>

\* A mutant of stop_zscaler_steps: the daemon is disabled before it is stopped
stop_zscaler_steps_disable_first ==
    << Step("stop", gui_service, "user", "_did_gui_stop_correctly",
            Exit("failed to stop", gui_service)),
       Step("disable", daemon_service, "sudo", "_was_daemon_disabled_correctly",
            Exit("failed to disable", daemon_service)),
       Step("stop", daemon_service, "sudo", "_did_daemon_stop_correctly",
            Exit("failed to stop", daemon_service)) >>

\* stop_zscaler, likewise
stop_zscaler_steps ==
    << Step("stop", gui_service, "user", "_did_gui_stop_correctly",
            Exit("failed to stop", gui_service)),
       Step("stop", daemon_service, "sudo", "_did_daemon_stop_correctly",
            Exit("failed to stop", daemon_service)),
       Step("disable", daemon_service, "sudo", "_was_daemon_disabled_correctly",
            Exit("failed to disable", daemon_service)) >>

StepsOf(s) == IF s = "start_zscaler" THEN start_zscaler_steps ELSE stop_zscaler_steps

\* the last line of each function
SuccessOf(s) ==
    IF s = "start_zscaler"
    THEN Log("zscaler correctly started")
    ELSE Log("zscaler correctly stopped")

\* The effect of `systemctl <verb> <unit>` on the system
Systemctl(verb, unit) ==
    CASE verb = "enable" -> SystemctlEnable /\ UNCHANGED ps
      [] verb = "disable" -> SystemctlDisable /\ UNCHANGED ps
      [] verb = "start" -> SystemctlStart(unit) /\ UNCHANGED unit_enabled
      [] verb = "stop" -> SystemctlStop(unit) /\ UNCHANGED unit_enabled

\* The call of a step, and the call of the function that checks it.
SeqCall ==
    /\ pc = "seq_call"
    /\ LET s == StepsOf(seq)[step]
           c == CheckOf(s.check)
       IN  /\ trace' = Append(trace, Call(s.verb, s.unit, s.via))
           /\ Systemctl(s.verb, s.unit)
           /\ IF c.how = "wait"
              THEN WaitBegin(c.want, c.patterns, "seq_checked") /\ pc' = "w_while"
              ELSE pc' = "seq_query" /\ UNCHANGED waitVars
    /\ UNCHANGED << status_format, op, raised >>
    /\ UNCHANGED cliVars
    /\ UNCHANGED decideVars
    /\ UNCHANGED << exitVars, runVars, securityVars, daemonVars >>

\* What follows a check that returned `result`: the next step, the last
\* line of the function, or exit(...); an exception leaves the function.
CheckReturned(result, want, patterns) ==
    LET s == StepsOf(seq)[step]
        checked == Append(trace, Verify(want, s.unit, result, patterns))
    IN  IF result = "True"
        THEN IF step < Len(StepsOf(seq))
             THEN /\ trace' = checked
                  /\ step' = step + 1
                  /\ pc' = "seq_call"
                  /\ UNCHANGED raised
             ELSE /\ trace' = Append(checked, SuccessOf(seq))
                  /\ pc' = "done"
                  /\ UNCHANGED << step, raised >>
        ELSE IF result = "False"
        THEN /\ trace' = Append(checked, s.failed)
             /\ raised' = "SystemExit"
             /\ pc' = "done"
             /\ UNCHANGED step
        ELSE /\ trace' = checked
             /\ raised' = result
             /\ pc' = "done"
             /\ UNCHANGED step

\* _was_daemon_enabled_correctly / _was_daemon_disabled_correctly: one
\* `systemctl status`, then the branch on what it returned.
SeqQuery ==
    /\ pc = "seq_query"
    /\ LET stdout == systemctl_status(status_format, unit_enabled)
           c == CheckOf(StepsOf(seq)[step].check)
       IN  CheckReturned(IF c.want = "enabled"
                         THEN is_systemd_unit_enabled(stdout)
                         ELSE is_systemd_unit_disabled(stdout),
                         c.want, {})
    /\ UNCHANGED << op, subcommand, are_running, current_status, seq >>
    /\ UNCHANGED envVars
    /\ UNCHANGED decideVars
    /\ UNCHANGED waitVars
    /\ UNCHANGED << exitVars, runVars, securityVars, daemonVars >>

\* The branch on what the wait returned.
SeqChecked ==
    /\ pc = "seq_checked"
    /\ CheckReturned(wResult, wKind, wPatterns)
    /\ UNCHANGED << op, subcommand, are_running, current_status, seq >>
    /\ UNCHANGED envVars
    /\ UNCHANGED decideVars
    /\ UNCHANGED waitVars
    /\ UNCHANGED << exitVars, runVars, securityVars, daemonVars >>

\* A call of start_zscaler or of stop_zscaler, from any state of the
\* system, in either environment.
CallSequence ==
    /\ pc = "idle"
    /\ op' = "sequence"
    /\ seq' \in { "start_zscaler", "stop_zscaler" }
    /\ env' \in Environments
    /\ runs' = 1
    /\ step' = 1
    /\ pc' = "seq_call"
    /\ UNCHANGED << subcommand, are_running, current_status, trace, raised, snapshot >>
    /\ UNCHANGED << envVars, decideVars, waitVars >>
    /\ UNCHANGED << exitVars, securityVars, daemonVars >>

\* The same function is called again right after it returned; `snapshot`
\* keeps the process table and the unit's state as the first call left them.
CallSequenceAgain ==
    /\ pc = "done"
    /\ op = "sequence"
    /\ runs = 1
    /\ raised = ""
    /\ runs' = 2
    /\ snapshot' = << ps, unit_enabled >>
    /\ trace' = << >>
    /\ step' = 1
    /\ pc' = "seq_call"
    /\ UNCHANGED << op, raised, env, subcommand, are_running, current_status, seq >>
    /\ UNCHANGED << envVars, decideVars, waitVars >>
    /\ UNCHANGED << exitVars, securityVars, daemonVars >>

----------------------------------------------------------------------------
(* The vpn command line tool *)

Branch(run, log, raise) == [ run |-> run, log |-> log, raise |-> raise ]

\* A mutant of main_match: without a subcommand a partly running client is
\* started
main_match_none_starts(sub, status) ==
    CASE sub = "up" ->
            IF status = all_processes_running
            THEN Branch("", "ZSCaler is already up", "")
            ELSE Branch("start_zscaler", "", "")
      [] sub = "down" ->
            IF status = no_processes_running
            THEN Branch("", "ZSCaler is already down", "")
            ELSE Branch("stop_zscaler", "", "")
      [] sub = "None" ->
            IF status = all_processes_running
            THEN Branch("", "ZSCaler is running", "")
            ELSE IF status = some_processes_running
            THEN Branch("start_zscaler", "", "")
            ELSE IF status = no_processes_running
            THEN Branch("", "ZSCaler is not running", "")
            ELSE Branch("", "", "NotImplementedError")

\* A mutant of main_match: `up` takes a partly running client for a running one
main_match_up_unless_none(sub, status) ==
    CASE sub = "up" ->
            IF status # no_processes_running
            THEN Branch("", "ZSCaler is already up", "")
            ELSE Branch("start_zscaler", "", "")
      [] sub = "down" ->
            IF status = no_processes_running
            THEN Branch("", "ZSCaler is already down", "")
            ELSE Branch("stop_zscaler", "", "")
      [] sub = "None" ->
            IF status = all_processes_running
            THEN Branch("", "ZSCaler is running", "")
            ELSE IF status = some_processes_running
            THEN Branch("", "ZSCaler is half-running", "")
            ELSE IF status = no_processes_running
            THEN Branch("", "ZSCaler is not running", "")
            ELSE Branch("", "", "NotImplementedError")

\* main: `match args.subcommand`: the function to run, the line to log, or
\* the exception to raise
main_match(sub, status) ==
    CASE sub = "up" ->
            IF status = all_processes_running
            THEN Branch("", "ZSCaler is already up", "")
            ELSE Branch("start_zscaler", "", "")
      [] sub = "down" ->
            IF status = no_processes_running
            THEN Branch("", "ZSCaler is already down", "")
            ELSE Branch("stop_zscaler", "", "")
      [] sub = "None" ->
            IF status = all_processes_running
            THEN Branch("", "ZSCaler is running", "")
            ELSE IF status = some_processes_running
            THEN Branch("", "ZSCaler is half-running", "")
            ELSE IF status = no_processes_running
            THEN Branch("", "ZSCaler is not running", "")
            ELSE Branch("", "", "NotImplementedError")

\* argparse: `vpn up`, `vpn down` or `vpn`
Subcommands == { "up", "down", "None" }

\* python -m src.cli.vpn [up|down]
RunCli ==
    /\ pc = "idle"
    /\ \E sub \in Subcommands : subcommand' = sub
    /\ op' = "cli"
    /\ pc' = "is_zscaler_running"
    /\ UNCHANGED << are_running, current_status, seq, step, trace, raised >>
    /\ UNCHANGED envVars
    /\ UNCHANGED decideVars
    /\ UNCHANGED waitVars
    /\ UNCHANGED << exitVars, runVars, securityVars, daemonVars >>

\* is_zscaler_running: map(_is_process_running, binaries) runs one `ps aux`
\* per binary, in the order of the list; after the last one the set of the
\* results decides the status.
IsZscalerRunning ==
    /\ pc = "is_zscaler_running"
    /\ LET binary == binaries[Len(are_running) + 1]
           results == Append(are_running, is_process_running(ps, binary))
           status == is_zscaler_running_of(Range(results))
       IN  /\ are_running' = results
           /\ IF Len(results) < Len(binaries)
              THEN UNCHANGED << pc, current_status, raised >>
              ELSE IF status \in ZScalerVpnStatus
                   THEN /\ current_status' = status
                        /\ pc' = IF op = "daemon" THEN "check" ELSE "match"
                        /\ UNCHANGED raised
                   ELSE /\ raised' = status
                        /\ pc' = "done"
                        /\ UNCHANGED current_status
    /\ UNCHANGED << op, subcommand, seq, step, trace >>
    /\ UNCHANGED envVars
    /\ UNCHANGED decideVars
    /\ UNCHANGED waitVars
    /\ UNCHANGED << exitVars, runVars, securityVars, daemonVars >>

\* main: the match statement
MainMatch ==
    /\ pc = "match"
    /\ LET b == main_match(subcommand, current_status)
       IN  IF b.run # ""
           THEN /\ seq' = b.run
                /\ step' = 1
                /\ pc' = "seq_call"
                /\ UNCHANGED << trace, raised >>
           ELSE /\ pc' = "done"
                /\ UNCHANGED << seq, step >>
                /\ IF b.raise # ""
                   THEN raised' = b.raise /\ UNCHANGED trace
                   ELSE trace' = Append(trace, Log(b.log)) /\ UNCHANGED raised
    /\ UNCHANGED << op, subcommand, are_running, current_status >>
    /\ UNCHANGED envVars
    /\ UNCHANGED decideVars
    /\ UNCHANGED waitVars
    /\ UNCHANGED << exitVars, runVars, securityVars, daemonVars >>

----------------------------------------------------------------------------
(* is_internet_security_on *)

MaxRows == 2

\* The Time column: "%a, %b %d %Y %H:%M:%S %p", here the day of the month,
\* the hour and the AM/PM mark (the other fields are the same in all rows).
Times ==
    { [ day |-> 1, hour |-> 10, p |-> "AM" ],
      [ day |-> 1, hour |-> 10, p |-> "PM" ],
      [ day |-> 1, hour |-> 11, p |-> "AM" ] }

\* The NotificationName column, word by word
NotificationNames ==
    { << "Internet", "Security", "Up" >>,
      << "Internet", "Security", "Disabled" >>,
      << "Internet", "Security", "Enabled" >>,
      << "Internet", "Security", "On" >>,
      << "Internet", "Security", "Off" >>,
      << "Internet", "Security", "Paused" >>,
      << "Tunnel", "Connected" >> }

Rows == [ Time : Times, NotificationName : NotificationNames ]

\* the contents of ZAppNotifications, up to MaxRows rows
Tables == UNION { [ 1..n -> Rows ] : n \in 0..MaxRows }

\* WHERE NotificationName LIKE 'Internet Security %'
like_prefix(name) ==
    Len(name) >= 3 /\ name[1] = "Internet" /\ name[2] = "Security"

\* _parse: strptime reads the hour with %H, so the %p mark does not change
\* the datetime; isoformat() of it orders as the datetime does.
parse_time(time) == time.day * 24 + time.hour

\* sorted(..., key=lambda x: x["t"]): a stable sort, by insertion
RECURSIVE sorted_by_t(_)
sorted_by_t(rows) ==
    IF rows = << >> THEN << >>
    ELSE LET n == Len(rows)
             front == sorted_by_t(SubSeq(rows, 1, n - 1))
             x == rows[n]
             k == Cardinality({ i \in 1..Len(front) :
                                  parse_time(front[i].Time) <= parse_time(x.Time) })
         IN  SubSeq(front, 1, k) \o << x >> \o SubSeq(front, k + 1, Len(front))

\* A mutant of status_of_notification: "Disabled" is read as off
status_of_notification_disabled_off(name) ==
    CASE name = << "Internet", "Security", "Up" >> -> "on"
      [] name = << "Internet", "Security", "Disabled" >> -> "off"
      [] name = << "Internet", "Security", "Enabled" >> -> "on"
      [] name = << "Internet", "Security", "On" >> -> "on"
      [] name = << "Internet", "Security", "Off" >> -> "off"
      [] OTHER -> "UnsupportedScenario"

\* `match name`: the status, or the exception raised
status_of_notification(name) ==
    CASE name = << "Internet", "Security", "Up" >> -> "on"
      [] name = << "Internet", "Security", "Disabled" >> -> "on"
      [] name = << "Internet", "Security", "Enabled" >> -> "on"
      [] name = << "Internet", "Security", "On" >> -> "on"
      [] name = << "Internet", "Security", "Off" >> -> "off"
      [] OTHER -> "UnsupportedScenario"

InternetSecurityStatus == { "on", "off", "unknown" }

\* is_internet_security_on: the status, or the exception raised
is_internet_security_on(exists, table) ==
    IF ~exists THEN "unknown"
    ELSE LET fetched == SelectSeq(table, LAMBDA row : like_prefix(row.NotificationName))
         IN  IF fetched = << >> THEN "unknown"
             ELSE LET parsed == sorted_by_t(fetched)
                      last_event == parsed[Len(parsed)]
                  IN  status_of_notification(last_event.NotificationName)

\* A call of is_internet_security_on, with any event log.
CallSecurity ==
    /\ pc = "idle"
    /\ \E exists \in BOOLEAN, table \in Tables :
          /\ exists \/ table = << >>
          /\ db_exists' = exists
          /\ events' = table
          /\ LET r == is_internet_security_on(exists, table)
             IN  IF r \in InternetSecurityStatus
                 THEN security_status' = r /\ UNCHANGED raised
                 ELSE raised' = r /\ UNCHANGED security_status
    /\ op' = "security"
    /\ pc' = "done"
    /\ UNCHANGED trace
    /\ UNCHANGED << envVars, cliVars, decideVars, waitVars >>
    /\ UNCHANGED << exitVars, runVars, daemonVars >>

----------------------------------------------------------------------------
(* The daemon *)

MaxCycles == 2

\* What read_config can find: a file that loads ("ok"), one that loads
\* but names a notification_bin that does not exist ("no_notifier"; only a
\* warning), no file ("missing"), or a file json.loads or the key lookups
\* reject ("malformed").
ConfigFiles == { "ok", "no_notifier", "missing", "malformed" }

\* Config.from_path: "" when it returns a Config, or the exception raised
read_config(file) ==
    CASE file = "missing" -> "ConfigFileNotFound"
      [] file = "malformed" -> "ValueError"
      [] OTHER -> ""

\* A mutant of main_handles: the try statement spans the loop and catches
\* every exception
main_handles_all(stage, exception) == TRUE

\* daemon main: `try: config = read_config() / except ConfigFileNotFound`;
\* the while loop is outside the try statement
main_handles(stage, exception) ==
    stage = "read_config" /\ exception = "ConfigFileNotFound"

\* An exception raised in `stage` of the daemon: main returns str(error) if
\* it handles it; otherwise the exception leaves main.
Raise(stage, exception) ==
    /\ trace' = Append(trace, Entry("raise", exception, "", stage, {}))
    /\ pc' = "done"
    /\ IF main_handles(stage, exception)
       THEN returned' = exception /\ UNCHANGED raised
       ELSE raised' = exception /\ UNCHANGED returned

\* subprocess.run([config.notification_bin, msg])
Notify(msg) == Entry("notify", msg, "", "", {})

\* what else `ps aux` may list besides the tracked processes
OtherCommandLines ==
    { << "/opt/zoom/zoom", "--url=meeting" >>, << "[zoom]" >>, << "vim", "zoom" >> }

\* command.startswith(("[", "-"))
starts_with_bracket_or_dash(command) == command[1] \in { "[zoom]", "-bash" }

\* binary.endswith("zoom")
ends_with_zoom(binary) == binary \in { "/opt/zoom/zoom", "zoom", "[zoom]" }

\* _get_active_processes
get_active_processes(table) ==
    { command[1] : command \in { c \in table : ~starts_with_bracket_or_dash(c) } }

\* in_a_call
in_a_call(table) == \E binary \in get_active_processes(table) : ends_with_zoom(binary)

\* A mutant of check_returns_early: a partly running client counts as off
check_returns_early_unless_all(vpn_status) == vpn_status # all_processes_running

\* _check: `if vpn_status == ZScalerVpnStatus.no_processes_running: return`
check_returns_early(vpn_status) == vpn_status = no_processes_running

\* What is_internet_security_on can give the daemon, over every event log
\* it may find: a status, or the exception it raises
SecurityResults ==
    { is_internet_security_on(exists, table) :
        exists \in BOOLEAN, table \in Tables }

\* python -m src.daemon: main begins, with read_config
RunDaemon ==
    /\ pc = "idle"
    /\ op' = "daemon"
    /\ \E file \in ConfigFiles :
          /\ config_file' = file
          /\ IF read_config(file) = ""
             THEN pc' = "loop" /\ UNCHANGED << trace, raised, returned >>
             ELSE Raise("read_config", read_config(file))
    /\ UNCHANGED << exit_code, cycles, notified, consulted >>
    /\ UNCHANGED << envVars, cliVars, decideVars, waitVars, runVars, securityVars >>

\* `while True: _check(config=config)`: _check begins.
DaemonCheck ==
    /\ pc = "loop"
    /\ cycles < MaxCycles
    /\ cycles' = cycles + 1
    /\ notified' = 0
    /\ consulted' = 0
    /\ are_running' = << >>
    /\ current_status' = "none"
    /\ security_status' = "none"
    /\ pc' = "is_zscaler_running"
    /\ UNCHANGED << op, trace, raised, subcommand, seq, step, db_exists, events, config_file >>
    /\ UNCHANGED << envVars, decideVars, waitVars, exitVars, runVars >>

\* _check: the branch on vpn_status
DaemonVpnStatus ==
    /\ pc = "check"
    /\ IF check_returns_early(current_status)
       THEN trace' = Append(trace, Log("ZScaler is OFF")) /\ pc' = "sleep"
       ELSE pc' = "security" /\ UNCHANGED trace
    /\ UNCHANGED << op, raised >>
    /\ UNCHANGED << envVars, cliVars, decideVars, waitVars >>
    /\ UNCHANGED << exitVars, runVars, securityVars, daemonVars >>

\* _check: security_status = is_internet_security_on(), with the event log
\* as it is at that moment, and the match on it up to in_a_call().
DaemonSecurity ==
    /\ pc = "security"
    /\ consulted' = consulted + 1
    /\ \E r \in SecurityResults :
          IF r \in InternetSecurityStatus
          THEN /\ security_status' = r
               /\ pc' = IF r = "on" THEN "notify" ELSE "sleep"
               /\ UNCHANGED << trace, raised, returned >>
          ELSE /\ Raise("_check", r)
               /\ UNCHANGED security_status
    /\ UNCHANGED << op, exit_code, db_exists, events, config_file, cycles, notified >>
    /\ UNCHANGED << envVars, cliVars, decideVars, waitVars, runVars >>

\* _check: in_a_call() (one `ps aux`), then notify(...), which raises
\* FileNotFoundError when the notification_bin does not exist.
DaemonNotify ==
    /\ pc = "notify"
    /\ notified' = notified + 1
    /\ \E others \in SUBSET OtherCommandLines :
          LET msg == IF in_a_call(ps \cup others)
                     THEN "turn lights off"
                     ELSE "Z Scaler internet security is on"
          IN  IF config_file = "no_notifier"
              THEN Raise("_check", "FileNotFoundError")
              ELSE /\ trace' = Append(trace, Notify(msg))
                   /\ pc' = "sleep"
                   /\ UNCHANGED << raised, returned >>
    /\ UNCHANGED << op, exit_code, config_file, cycles, consulted >>
    /\ UNCHANGED << envVars, cliVars, decideVars, waitVars, runVars, securityVars >>

\* time.sleep(wait), and back to the head of the loop
DaemonSleep ==
    /\ pc = "sleep"
    /\ pc' = "loop"
    /\ UNCHANGED << op, trace, raised >>
    /\ UNCHANGED << envVars, cliVars, decideVars, waitVars >>
    /\ UNCHANGED << exitVars, runVars, securityVars, daemonVars >>

----------------------------------------------------------------------------
(* The end of the process *)

\* A mutant of main_exit_status: an error that main returned exits with 1
main_exit_status_strict(exception, error) ==
    IF exception # "" \/ error # "" THEN 1 ELSE 0

\* `if error := main(): logger.error(error); exit(0)`, the last lines of
\* both scripts: exit(0) after an error main returned, the end of the script
\* after None, and the interpreter's status for an exception that left main
\* (SystemExit with a message, or any other exception).
main_exit_status(exception, error) ==
    IF exception # "" THEN 1 ELSE 0

\* whether the script called logger.error
LoggedError == exit_code # -1 /\ raised = "" /\ returned # ""

\* vpn: the process ends.  main has no return statement: it returns None.
VpnExit ==
    /\ pc = "done"
    /\ op = "cli"
    /\ exit_code = -1
    /\ exit_code' = main_exit_status(raised, returned)
    /\ UNCHANGED << op, pc, trace, raised, returned >>
    /\ UNCHANGED << envVars, cliVars, decideVars, waitVars >>
    /\ UNCHANGED << runVars, securityVars, daemonVars >>

\* daemon: the process ends, main having returned an ErrorStr or an
\* exception having left it.
DaemonExit ==
    /\ pc = "done"
    /\ op = "daemon"
    /\ exit_code = -1
    /\ exit_code' = main_exit_status(raised, returned)
    /\ UNCHANGED << op, pc, trace, raised, returned >>
    /\ UNCHANGED << envVars, cliVars, decideVars, waitVars >>
    /\ UNCHANGED << runVars, securityVars, daemonVars >>

----------------------------------------------------------------------------
(* The specification *)

Next ==
    \/ RunCli
    \/ IsZscalerRunning
    \/ MainMatch
    \/ SeqCall
    \/ SeqQuery
    \/ SeqChecked
    \/ WaitWhile
    \/ WaitFor
    \/ WaitSleep
    \/ CallWait
    \/ CallDecide
    \/ EnvProcess
    \/ VpnExit
    \/ CallSecurity
    \/ CallSequence
    \/ CallSequenceAgain
    \/ RunDaemon
    \/ DaemonCheck
    \/ DaemonVpnStatus
    \/ DaemonSecurity
    \/ DaemonNotify
    \/ DaemonSleep
    \/ DaemonExit

Spec == Init /\ [][Next]_vars

----------------------------------------------------------------------------
(* Properties *)

DecideReturned == op = "decide" /\ pc = "done"

\* C1: decide_action(current, desired) is this table: equal statuses give
\* "nothing-to-reconcile"; desired all_processes_running with current none
\* or some gives "startup"; desired no_processes_running with current all
\* or some gives "shutdown"; desired some_processes_running with current
\* all or none raises UnsupportedScenario.
C1_DecideTable ==
    DecideReturned =>
        /\ dCurrent = dDesired
              => dResult = "nothing-to-reconcile" /\ raised = ""
        /\ ( dDesired = all_processes_running
             /\ dCurrent \in { no_processes_running, some_processes_running } )
              => dResult = "startup" /\ raised = ""
        /\ ( dDesired = no_processes_running
             /\ dCurrent \in { all_processes_running, some_processes_running } )
              => dResult = "shutdown" /\ raised = ""
        /\ ( dDesired = some_processes_running
             /\ dCurrent \in { all_processes_running, no_processes_running } )
              => dResult = "none" /\ raised = "UnsupportedScenario"

C1_Witness ==
    /\ DecideReturned
    /\ dCurrent = some_processes_running
    /\ dDesired = all_processes_running
    /\ dResult = "startup"

\* C2 as stated: decide_action returns an action, and raises nothing, for
\* every one of the nine (current, desired) pairs.
C2_DecideTotal == DecideReturned => dResult \in Action /\ raised = ""

\* C2 as amended: decide_action returns an action for the seven pairs
\* whose desired status is all_processes_running or no_processes_running,
\* or equals the current one, and raises UnsupportedScenario for exactly
\* the two others, (all, some) and (none, some).
C2_DecideTotalButDesiredSome ==
    DecideReturned =>
        IF dDesired = some_processes_running /\ dCurrent # some_processes_running
        THEN raised = "UnsupportedScenario" /\ dResult \notin Action
        ELSE raised = "" /\ dResult \in Action

C2_Witness ==
    /\ DecideReturned
    /\ dCurrent = no_processes_running
    /\ dDesired = some_processes_running
    /\ raised = "UnsupportedScenario"

\* the identities the three `ps aux` of one is_zscaler_running call
\* reported as running
ReportedRunning == { binaries[i] : i \in { j \in 1..Len(are_running) : are_running[j] } }

Classified == Len(are_running) = Len(binaries)

\* C3: whatever subset S of the three identities one call of
\* is_zscaler_running saw running, it returns all_processes_running iff S is
\* all three, no_processes_running iff S is empty, some_processes_running
\* otherwise, and it does not raise.
C3_Classify ==
    Classified =>
        /\ pc # "is_zscaler_running"
        /\ raised # "NotImplementedError"
        /\ current_status \in ZScalerVpnStatus
        /\ current_status = all_processes_running <=> ReportedRunning = Identities
        /\ current_status = no_processes_running <=> ReportedRunning = {}
        /\ current_status = some_processes_running
              <=> ReportedRunning \notin { {}, Identities }

C3_Witness ==
    /\ Classified
    /\ ReportedRunning = { ZSTray, zstunnel }
    /\ current_status = some_processes_running

\* an entry without the privilege its call ran with
Plain(e) == IF e.kind = "call" THEN [ e EXCEPT !.arg = "" ] ELSE e

PlainTrace == [ i \in 1..Len(trace) |-> Plain(trace[i]) ]

IsPrefix(a, b) == Len(a) <= Len(b) /\ SubSeq(b, 1, Len(a)) = a

\* A run that follows `canon` (call, passed check, call, passed check, ...,
\* success): it is a prefix of it, or it left it at a check, which did not
\* return True, and made at most the exit that follows.
Follows(t, canon) ==
    \/ IsPrefix(t, canon)
    \/ \E k \in { 1, 3, 5 } :
          /\ Len(t) \in { k + 1, k + 2 }
          /\ SubSeq(t, 1, k) = SubSeq(canon, 1, k)
          /\ t[k + 1].kind = "verify"
          /\ t[k + 1].arg # "True"
          /\ Len(t) = k + 2 => t[k + 2].kind = "exit"

\* enable(daemon), isEnabled, start(daemon), daemon and tunnel running,
\* start(GUI), tray running, success
StartupRun ==
    << Entry("call", "enable", daemon_service, "", {}),
       Verify("enabled", daemon_service, "True", {}),
       Entry("call", "start", daemon_service, "", {}),
       Verify("running", daemon_service, "True", { zsaservice, zstunnel }),
       Entry("call", "start", gui_service, "", {}),
       Verify("running", gui_service, "True", { ZSTray }),
       Log("zscaler correctly started") >>

\* stop(GUI), tray not running, stop(daemon), daemon and tunnel not
\* running, disable(daemon), isDisabled, success
ShutdownRun ==
    << Entry("call", "stop", gui_service, "", {}),
       Verify("not_running", gui_service, "True", { ZSTray }),
       Entry("call", "stop", daemon_service, "", {}),
       Verify("not_running", daemon_service, "True", { zsaservice, zstunnel }),
       Entry("call", "disable", daemon_service, "", {}),
       Verify("disabled", daemon_service, "True", {}),
       Log("zscaler correctly stopped") >>

\* C4: in every run of start_zscaler the unit calls are enable(daemon),
\* start(daemon), start(GUI) in this order, each one after the check of the
\* step before it passed (unit enabled; daemon and tunnel running; tray
\* running); success is logged only after the three checks passed; no stop
\* and no disable is called.
C4_StartupOrder == seq = "start_zscaler" => Follows(PlainTrace, StartupRun)

C4_Witness ==
    /\ seq = "start_zscaler"
    /\ pc = "done"
    /\ PlainTrace = StartupRun

\* C5: in every run of stop_zscaler the unit calls are stop(GUI),
\* stop(daemon), disable(daemon) in this order, each one after the check of
\* the step before it passed (tray not running; daemon and tunnel not
\* running); success is logged only after the unit was seen disabled; no
\* start and no enable is called.
C5_ShutdownOrder == seq = "stop_zscaler" => Follows(PlainTrace, ShutdownRun)

C5_Witness ==
    /\ seq = "stop_zscaler"
    /\ pc = "done"
    /\ PlainTrace = ShutdownRun

\* C6: in both sequences, once a check has returned False the sequence is
\* over: the entry after it is the exit, whose message names the unit of
\* the call that was checked, nothing follows the exit, the program has
\* left through SystemExit, and success is not logged.
C6_AbortOnFailure ==
    \A i \in 1..Len(trace) :
        ( trace[i].kind = "verify" /\ trace[i].arg = "False" ) =>
            /\ i > 1
            /\ trace[i - 1].kind = "call"
            /\ Len(trace) = i + 1
            /\ trace[i + 1].kind = "exit"
            /\ trace[i + 1].unit = trace[i - 1].unit
            /\ pc = "done"
            /\ raised = "SystemExit"
            /\ \A j \in 1..Len(trace) : trace[j].kind # "log"

\* the daemon did not come up: start_zscaler stopped at its second step
C6_Witness ==
    /\ seq = "start_zscaler"
    /\ Len(trace) = 5
    /\ trace[4] = Verify("running", daemon_service, "False", daemon_patterns)
    /\ trace[5] = Exit("failed to start", daemon_service)
    /\ polls = max_attempts

\* a pass of the for loop has just ended (or none has begun)
PassOver == wTodo = {}

\* C7: _are_processes_running returns True without sleeping when its first
\* pass finds every identity running; when it returns False after polling,
\* it has made exactly 5 passes and at least 4 sleeps of one second, with
\* an identity still not seen running; and it never begins a 6th pass.
C7_WaitRunningBudget ==
    wKind = "running" =>
        /\ polls <= 5
        /\ ( polls = 1 /\ PassOver /\ wPending = {} )
              => wResult = "True" /\ sleeps = 0
        /\ ( wResult = "False" /\ polls >= 1 )
              => polls = 5 /\ sleeps >= 4 /\ wPending # {}
        /\ wResult = "True" => wPending = {}

\* neither daemon process ever came up
C7_Witness ==
    /\ wKind = "running"
    /\ wPatterns = daemon_patterns
    /\ wResult = "False"
    /\ polls = 5
    /\ sleeps >= 4
    /\ observed = {}

\* C8 as stated: for every set of identities, the empty one included, each
\* of the two waits returns True iff every identity of the set was seen in
\* the target condition within the 5 passes, and False otherwise.
C8_WaitIffObserved ==
    /\ polls <= 5
    /\ wResult \in { "none", "True", "False" }
    /\ wResult # "none" => ( wResult = "True" <=> wPatterns \subseteq observed )

\* C9: `vpn` without a subcommand calls no unit: it enters neither
\* sequence, issues no enable, disable, start or stop, and ends having
\* logged the one line that reports the status it saw.
C9_StatusOnly ==
    ( op = "cli" /\ subcommand = "None" ) =>
        /\ seq = "none"
        /\ \A i \in 1..Len(trace) : trace[i].kind # "call"
        /\ pc = "done" =>
              /\ raised = ""
              /\ trace \in { << Log("ZSCaler is running") >>,
                             << Log("ZSCaler is half-running") >>,
                             << Log("ZSCaler is not running") >> }

C9_Witness ==
    /\ op = "cli"
    /\ subcommand = "None"
    /\ pc = "done"
    /\ current_status = some_processes_running
    /\ trace = << Log("ZSCaler is half-running") >>

\* main is past its match statement
Matched == op = "cli" /\ current_status # "none" /\ pc # "match"

\* C10: main agrees with decide_action: `up` enters start_zscaler iff
\* decide_action(current, all_processes_running) is "startup", `down`
\* enters stop_zscaler iff decide_action(current, no_processes_running) is
\* "shutdown", and where decide_action gives "nothing-to-reconcile" no unit
\* call is made.
C10_CliAgreesWithDecide ==
    Matched =>
        /\ subcommand = "up" =>
              /\ seq = "start_zscaler"
                    <=> decide_action(current_status, all_processes_running) = "startup"
              /\ seq # "stop_zscaler"
              /\ decide_action(current_status, all_processes_running)
                       = "nothing-to-reconcile"
                    => \A i \in 1..Len(trace) : trace[i].kind # "call"
        /\ subcommand = "down" =>
              /\ seq = "stop_zscaler"
                    <=> decide_action(current_status, no_processes_running) = "shutdown"
              /\ seq # "start_zscaler"
              /\ decide_action(current_status, no_processes_running)
                       = "nothing-to-reconcile"
                    => \A i \in 1..Len(trace) : trace[i].kind # "call"

C10_Witness ==
    /\ Matched
    /\ subcommand = "up"
    /\ current_status = some_processes_running
    /\ seq = "start_zscaler"
    /\ Len(trace) >= 1
    /\ trace[1] = Call("enable", daemon_service, "sudo")

\* a check of the sequence returned False
StepFailed == \E i \in 1..Len(trace) : trace[i].kind = "verify" /\ trace[i].arg = "False"

\* C11 as stated: every run of `vpn up` or `vpn down` ends with exit status
\* 0, and a run in which a step failed its check has logged the error.
C11_ErrorsExitZero ==
    ( op = "cli" /\ subcommand \in { "up", "down" } /\ exit_code # -1 ) =>
        /\ exit_code = 0
        /\ StepFailed => LoggedError

\* a wait of the sequence used up its attempts
StepTimedOut ==
    \E i \in 1..Len(trace) :
        /\ trace[i].kind = "verify"
        /\ trace[i].op \in { "running", "not_running" }
        /\ trace[i].arg = "False"

\* C12 as stated: a step whose wait used up its attempts ends the sequence
\* only: no exception ends the process, control is back with the caller.
C12_TimeoutReturnsToCaller == StepTimedOut => raised = ""

SecurityReturned == op = "security" /\ pc = "done"

\* what the call ended with: the status returned or the exception raised
SecurityOutcome == IF raised # "" THEN raised ELSE security_status

\* the orders a table's rows can be fetched in
FetchOrders(table) ==
    LET n == Len(table)
    IN  { [ i \in 1..n |-> table[f[i]] ] :
            f \in { g \in [ 1..n -> 1..n ] : \A i, j \in 1..n : i # j => g[i] # g[j] } }

\* C13 as stated: whatever the rows, is_internet_security_on ends the same
\* way for every order they are fetched in.
C13_OrderIndependent ==
    SecurityReturned =>
        \A table \in FetchOrders(events) :
            is_internet_security_on(db_exists, table) = SecurityOutcome

\* the rows of the log that the query selects
Fetched == { i \in 1..Len(events) : like_prefix(events[i].NotificationName) }

\* those of them with the greatest parsed timestamp
Latest ==
    { i \in Fetched :
        \A j \in Fetched : parse_time(events[j].Time) <= parse_time(events[i].Time) }

\* C14: is_internet_security_on returns unknown, and raises nothing, when
\* the store is absent or no row matches the prefix; otherwise a row with
\* the greatest parsed timestamp decides: on for "Internet Security Up",
\* "... Disabled", "... Enabled" and "... On", off for "... Off", and
\* UnsupportedScenario raised for any other name.
C14_SecurityStatus ==
    SecurityReturned =>
        IF ~db_exists \/ Fetched = {}
        THEN security_status = "unknown" /\ raised = ""
        ELSE \E i \in Latest :
                LET name == events[i].NotificationName
                IN  IF name[3] \in { "Up", "Disabled", "Enabled", "On" }
                    THEN security_status = "on" /\ raised = ""
                    ELSE IF name[3] = "Off"
                    THEN security_status = "off" /\ raised = ""
                    ELSE raised = "UnsupportedScenario" /\ security_status = "none"

\* the later of two events says "Disabled"
C14_Witness ==
    /\ SecurityReturned
    /\ db_exists
    /\ Len(events) = 2
    /\ events[1].NotificationName = << "Internet", "Security", "Disabled" >>
    /\ events[2].NotificationName = << "Internet", "Security", "Off" >>
    /\ events[1].Time.hour = 11
    /\ events[2].Time.hour = 10
    /\ security_status = "on"


\* the notifier calls of a daemon run
Notifications == { i \in 1..Len(trace) : trace[i].kind = "notify" }

\* C15: when the configuration file does not exist, the daemon runs no
\* check cycle and sends no notification: main returns the error message,
\* which is logged, and the process exits with status 0.
C15_MissingConfigExitsZero ==
    (op = "daemon" /\ config_file = "missing") =>
        /\ cycles = 0
        /\ notified = 0
        /\ Notifications = {}
        /\ pc = "done"
        /\ raised = ""
        /\ returned = "ConfigFileNotFound"
        /\ exit_code # -1 => (exit_code = 0 /\ LoggedError)

C15_Witness ==
    op = "daemon" /\ config_file = "missing" /\ exit_code = 0 /\ LoggedError

\* the check cycle has run to its end
CycleEnded == op = "daemon" /\ pc = "sleep"

\* C17: in a check cycle the notifier is invoked exactly once if the client
\* is running (fully or partly) and internet security is on, and not at all
\* otherwise; when the client is not running the event log is not read.
C17_NotifyOncePerCycle ==
    /\ op = "daemon" =>
          /\ notified \in { 0, 1 }
          /\ consulted \in { 0, 1 }
          /\ notified = 1 =>
                /\ current_status \in { all_processes_running, some_processes_running }
                /\ security_status = "on"
                /\ consulted = 1
          /\ current_status = no_processes_running => consulted = 0
    /\ CycleEnded =>
          /\ notified = IF /\ current_status # no_processes_running
                           /\ security_status = "on"
                        THEN 1 ELSE 0
          /\ consulted = IF current_status = no_processes_running THEN 0 ELSE 1

C17_Witness ==
    /\ CycleEnded
    /\ cycles = MaxCycles
    /\ current_status = some_processes_running
    /\ security_status = "on"
    /\ notified = 1
    /\ Cardinality(Notifications) = 2

C17_WitnessOff ==
    /\ CycleEnded
    /\ current_status = no_processes_running
    /\ consulted = 0
    /\ notified = 0
    /\ Notifications # {}

\* C18: main catches the configuration error only: an error raised inside
\* a check cycle leaves main, nothing follows it (no notification, no
\* further cycle), and the process ends on it, with status 1.
C18_CycleErrorsPropagate ==
    \A i \in 1..Len(trace) :
        (trace[i].kind = "raise" /\ trace[i].arg = "_check") =>
            /\ op = "daemon"
            /\ i = Len(trace)
            /\ pc = "done"
            /\ raised = trace[i].op
            /\ returned = ""
            /\ exit_code \in { -1, 1 }

C18_Witness ==
    /\ op = "daemon"
    /\ cycles = MaxCycles
    /\ raised = "UnsupportedScenario"
    /\ exit_code = 1
    /\ Notifications # {}

\* the second of two calls in a row, in the ideal environment
SecondRun == op = "sequence" /\ env = "ideal" /\ runs = 2

\* C16: start_zscaler and stop_zscaler are idempotent: where unit
\* operations take effect and processes do not change on their own, a
\* second call right after a successful one leaves the process table and
\* the unit's enabled state as the first call left them, and ends with the
\* success message as well.
C16_Idempotent ==
    SecondRun =>
        /\ ps = snapshot[1]
        /\ unit_enabled = snapshot[2]
        /\ raised = ""
        /\ Follows(PlainTrace, IF seq = "start_zscaler" THEN StartupRun ELSE ShutdownRun)
        /\ pc = "done" => trace[Len(trace)] = SuccessOf(seq)

C16_Witness ==
    /\ SecondRun
    /\ seq = "start_zscaler"
    /\ pc = "done"
    /\ PlainTrace = StartupRun
    /\ snapshot = << { CommandLine(b) : b \in Identities }, TRUE >>

C16_WitnessStop ==
    /\ SecondRun
    /\ seq = "stop_zscaler"
    /\ pc = "done"
    /\ PlainTrace = ShutdownRun
    /\ snapshot = << {}, FALSE >>

\* C19: in both sequences every call on the daemon unit (enable, start,
\* stop, disable) is made through _run_as_sudo and every call on the GUI
\* unit (start, stop) through _run_as_user.
C19_PrivilegeBinding ==
    \A i \in 1..Len(trace) :
        trace[i].kind = "call" =>
            \/ /\ trace[i].unit = daemon_service
               /\ trace[i].op \in { "enable", "start", "stop", "disable" }
               /\ trace[i].arg = "sudo"
            \/ /\ trace[i].unit = gui_service
               /\ trace[i].op \in { "start", "stop" }
               /\ trace[i].arg = "user"

C19_Witness ==
    /\ seq = "stop_zscaler"
    /\ pc = "done"
    /\ Len(trace) = 7
    /\ trace[1] = Call("stop", gui_service, "user")
    /\ trace[3] = Call("stop", daemon_service, "sudo")
    /\ trace[5] = Call("disable", daemon_service, "sudo")

\* the outputs of `systemctl status` whose second line is not a "Loaded:"
\* line, the ones without a second line included
LacksLoadedLine(format) ==
    LET stdout == systemctl_status(format, unit_enabled)
    IN  Len(stdout) < 2 \/ ~StartsWithLoaded(stdout[2])

\* C20: on every status output that lacks the "Loaded:" line as its second
\* line, outputs of fewer than two lines included, the enabled/disabled
\* check raises the ValueError of the parse, once, and the sequence ends
\* there with no further call.
C20_ParseErrorOnAnyShape ==
    \A i \in 1..Len(trace) :
        ( /\ trace[i].kind = "verify"
          /\ trace[i].op \in { "enabled", "disabled" }
          /\ LacksLoadedLine(status_format) ) =>
            /\ trace[i].arg = "ValueError"
            /\ raised = "ValueError"
            /\ i = Len(trace)
            /\ pc = "done"

\* what does hold: the check raises (ValueError, or IndexError when there
\* is no second line) and nothing follows it
C20_RaisesAndStops ==
    \A i \in 1..Len(trace) :
        ( /\ trace[i].kind = "verify"
          /\ trace[i].op \in { "enabled", "disabled" }
          /\ LacksLoadedLine(status_format) ) =>
            /\ trace[i].arg =
                 IF status_format = "one_line" THEN "IndexError" ELSE "ValueError"
            /\ raised = trace[i].arg
            /\ i = Len(trace)
            /\ pc = "done"

\* a direct call of _are_processes_running or _are_processes_not_running
\* has just returned True (no process changes once the call is over)
WaitReturnedTrue == op = "wait" /\ pc = "done" /\ wResult = "True"

\* C21: when _are_processes_running returns True every executable of the
\* list is running in the process table at that moment, and when
\* _are_processes_not_running returns True none is, whatever starts and
\* stops between the polls.
C21_TrueAtReturn ==
    WaitReturnedTrue => \A b \in wPatterns : Satisfied(wKind, ps, b)

\* what does hold: every executable was seen in the wanted condition by
\* some `ps aux` of the call, and a list of one executable is in it when
\* the call returns
C21_SeenOnceEach ==
    WaitReturnedTrue =>
        /\ observed = wPatterns
        /\ Cardinality(wPatterns) = 1 => \A b \in wPatterns : Satisfied(wKind, ps, b)

====
